---- MODULE Spec2Model ----
(***************************************************************************)
(* seispy/plot.py: the zero-crossing inserter (insert_zeros), the input    *)
(* normalizer (wiggle_input_check) and the two renderers built on them     *)
(* (wiggle, traces).                                                       *)
(*                                                                         *)
(* Numbers.  A float64 is modelled as a pair <<n, d>>:                     *)
(*     d > 0, n # 0   the finite value n/d (kept in lowest terms)          *)
(*     <<0, 1>>       +0.0            <<0, -1>>      -0.0                  *)
(*     <<1, 0>>       +inf            <<-1, 0>>      -inf                  *)
(*     <<0, 0>>       NaN                                                  *)
(* Arithmetic follows IEEE 754 for signs, zeros, infinities and NaN and is *)
(* exact on finite values (no rounding, no overflow).                      *)
(***************************************************************************)
EXTENDS Integers, Sequences, FiniteSets, TLC

VARIABLES
    nan_signbit,  \* sign bit of the NaN an invalid operation produces (platform)
    ipc,          \* insert_zeros harness: "idle", "args", "done"
    trace_in,     \* insert_zeros argument trace
    tt_in,        \* insert_zeros argument tt (PyNone when omitted)
    iz,           \* insert_zeros result [trace_zi, tt_zi]
    pc,           \* position of the wiggle()/traces() call
    fn,           \* "wiggle" or "traces"
    args,         \* the arguments as passed by the caller
    heap_data,    \* the caller's data array object, as it is now
    frame,        \* locals data, tt, xx, ts after wiggle_input_check
    err,          \* the exception that left the call, if any
    ntr,          \* loop variable of the per-trace loop
    backend       \* plotting backend: global config, windows, items, axes

vars == <<nan_signbit, ipc, trace_in, tt_in, iz,
          pc, fn, args, heap_data, frame, err, ntr, backend>>

izvars == <<ipc, trace_in, tt_in, iz>>
plotvars == <<pc, fn, args, heap_data, frame, err, ntr, backend>>

(***************************************************************************)
(* Bounds of the model.                                                    *)
(***************************************************************************)
MaxLen == 3      \* longest trace handed to insert_zeros directly
MaxRows == 2     \* most rows (samples) of a data matrix
MaxCols == 3     \* most columns (traces) of a data matrix

(***************************************************************************)
(* float64                                                                 *)
(***************************************************************************)
NaN == <<0, 0>>
PZero == <<0, 1>>
NZero == <<0, -1>>
PInf == <<1, 0>>
NInf == <<-1, 0>>
One == <<1, 1>>

Abs(k) == IF k < 0 THEN -k ELSE k

RECURSIVE Gcd(_, _)
Gcd(a, b) == IF b = 0 THEN a ELSE Gcd(b, a % b)

F(k) == IF k = 0 THEN PZero ELSE <<k, 1>>

IsNaN(x) == x = NaN
IsInf(x) == x[2] = 0 /\ x[1] # 0
IsZero(x) == x[1] = 0 /\ x[2] # 0
IsFinite(x) == x[2] # 0

\* the rational n/d (d # 0, n # 0) in lowest terms with a positive denominator
Norm(n, d) ==
    LET g == Gcd(Abs(n), Abs(d))
        s == IF d < 0 THEN -1 ELSE 1
    IN  <<(s * n) \div g, (s * d) \div g>>

\* np.signbit
Signbit(x) ==
    IF IsNaN(x) THEN nan_signbit
    ELSE x[1] < 0 \/ (x[1] = 0 /\ x[2] < 0)

SignedZero(neg) == IF neg THEN NZero ELSE PZero
SignedInf(neg) == IF neg THEN NInf ELSE PInf

Neg(x) ==
    IF IsNaN(x) THEN NaN
    ELSE IF IsZero(x) THEN <<0, -x[2]>>
    ELSE <<-x[1], x[2]>>

Add(x, y) ==
    IF IsNaN(x) \/ IsNaN(y) THEN NaN
    ELSE IF IsInf(x) /\ IsInf(y) THEN (IF x = y THEN x ELSE NaN)
    ELSE IF IsInf(x) THEN x
    ELSE IF IsInf(y) THEN y
    ELSE IF IsZero(x) /\ IsZero(y) THEN (IF x = NZero /\ y = NZero THEN NZero ELSE PZero)
    ELSE IF IsZero(x) THEN y
    ELSE IF IsZero(y) THEN x
    ELSE LET n == x[1] * y[2] + y[1] * x[2]
         IN  IF n = 0 THEN PZero ELSE Norm(n, x[2] * y[2])

Sub(x, y) == Add(x, Neg(y))

Mul(x, y) ==
    LET neg == (Signbit(x) # Signbit(y))
    IN  IF IsNaN(x) \/ IsNaN(y) THEN NaN
        ELSE IF (IsInf(x) /\ IsZero(y)) \/ (IsZero(x) /\ IsInf(y)) THEN NaN
        ELSE IF IsInf(x) \/ IsInf(y) THEN SignedInf(neg)
        ELSE IF IsZero(x) \/ IsZero(y) THEN SignedZero(neg)
        ELSE Norm(x[1] * y[1], x[2] * y[2])

Div(x, y) ==
    LET neg == (Signbit(x) # Signbit(y))
    IN  IF IsNaN(x) \/ IsNaN(y) THEN NaN
        ELSE IF (IsZero(x) /\ IsZero(y)) \/ (IsInf(x) /\ IsInf(y)) THEN NaN
        ELSE IF IsInf(x) \/ IsZero(y) THEN SignedInf(neg)
        ELSE IF IsZero(x) \/ IsInf(y) THEN SignedZero(neg)
        ELSE Norm(x[1] * y[2], x[2] * y[1])

\* x < y, x <= y, x == y as float64 comparisons (false on NaN; -0.0 == +0.0)
Num(x) == IF IsZero(x) THEN 0 ELSE x[1]
Den(x) == IF IsZero(x) THEN 1 ELSE x[2]
Lt(x, y) ==
    IF IsNaN(x) \/ IsNaN(y) THEN FALSE
    ELSE IF x = y THEN FALSE
    ELSE IF x = NInf \/ y = PInf THEN TRUE
    ELSE IF x = PInf \/ y = NInf THEN FALSE
    ELSE Num(x) * Den(y) < Num(y) * Den(x)
FEq(x, y) ==
    IF IsNaN(x) \/ IsNaN(y) THEN FALSE
    ELSE IF IsZero(x) /\ IsZero(y) THEN TRUE
    ELSE x = y
Le(x, y) == Lt(x, y) \/ FEq(x, y)

(***************************************************************************)
(* Python values: every argument is a record [type, shape, a, rad].        *)
(* An ndarray of shape <<n>> keeps its elements in a (a sequence), one of  *)
(* shape <<r, c>> keeps its r rows in a.  The elements of an array stand   *)
(* for a[..] / sqrt(rad); rad is 1 except in the array that line 98        *)
(* produces, whose elements are divided by a standard deviation, the       *)
(* square root of the rational rad.                                        *)
(***************************************************************************)
PyNone == [type |-> "NoneType", shape |-> <<>>, a |-> <<>>, rad |-> One]
PyList == [type |-> "list", shape |-> <<>>, a |-> <<>>, rad |-> One]
PyStr == [type |-> "str", shape |-> <<>>, a |-> <<>>, rad |-> One]
PyBool(b) == [type |-> "bool", shape |-> <<>>, a |-> b, rad |-> One]
PyNum(t, x) == [type |-> t, shape |-> <<>>, a |-> x, rad |-> One]
Array1(s) == [type |-> "ndarray", shape |-> <<Len(s)>>, a |-> s, rad |-> One]
Array2(r, c, rows) == [type |-> "ndarray", shape |-> <<r, c>>, a |-> rows, rad |-> One]

\* type(x).__module__ == np.__name__
IsNumpy(x) == x.type = "ndarray"

\* np.arange(n)
Arange(n) == Array1([i \in 1..n |-> F(i - 1)])

(***************************************************************************)
(* insert_zeros (plot.py 10-40).  Indices are numpy's, counted from 0:     *)
(* At(s, i) is s[i].                                                       *)
(***************************************************************************)
At(s, i) == s[i + 1]

\* s[lo:hi]
Slice(s, lo, hi) == [k \in 1..(hi - lo) |-> s[lo + k]]

\* line 19 with trace < 0 in place of np.signbit(trace)
ZcIdxLessThanZero(trace) ==
    LET n == Len(trace)
        Changes(i) == Lt(At(trace, i), PZero) # Lt(At(trace, i + 1), PZero)
    IN  SelectSeq([k \in 1..(IF n = 0 THEN 0 ELSE n - 1) |-> k - 1], Changes)

\* np.where(np.diff(np.signbit(trace)))[0], ascending
ZcIdx(trace) ==
    LET n == Len(trace)
        Changes(i) == Signbit(At(trace, i)) # Signbit(At(trace, i + 1))
    IN  SelectSeq([k \in 1..(IF n = 0 THEN 0 ELSE n - 1) |-> k - 1], Changes)

\* lines 20-25: the zero of the line through (x1, y1) and (x2, y2)
TtZero(trace, tt, zc_idx) ==
    [k \in 1..Len(zc_idx) |->
        LET x1 == At(tt, zc_idx[k])
            x2 == At(tt, zc_idx[k] + 1)
            y1 == At(trace, zc_idx[k])
            y2 == At(trace, zc_idx[k] + 1)
            a == Div(Sub(y2, y1), Sub(x2, x1))
        IN  Sub(x1, Div(y1, a))]

\* np.split(s, zc_idx): cut one place early
SplitAtCrossing(s, zc_idx) ==
    LET m == Len(zc_idx)
        Cut(k) == IF k = 0 THEN 0 ELSE IF k = m + 1 THEN Len(s) ELSE zc_idx[k]
    IN  [k \in 1..(m + 1) |-> Slice(s, Cut(k - 1), Cut(k))]

\* np.split(s, zc_idx + 1): Len(zc_idx) + 1 consecutive pieces of s
Split(s, zc_idx) ==
    LET m == Len(zc_idx)
        Cut(k) == IF k = 0 THEN 0 ELSE IF k = m + 1 THEN Len(s) ELSE zc_idx[k] + 1
    IN  [k \in 1..(m + 1) |-> Slice(s, Cut(k - 1), Cut(k))]

\* lines 35-38 without the inserted point: np.hstack((tt_zi, tt_split[i + 1]))
RECURSIVE StackNoPoint(_, _, _, _)
StackNoPoint(acc, points, pieces, i) ==
    IF i >= Len(points) THEN acc
    ELSE StackNoPoint(acc \o At(pieces, i + 1), points, pieces, i + 1)

\* lines 35-38 with the inserted point in place of the next piece's first sample
RECURSIVE StackOverwrite(_, _, _, _)
StackOverwrite(acc, points, pieces, i) ==
    IF i >= Len(points) THEN acc
    ELSE StackOverwrite(acc \o <<At(points, i)>> \o Tail(At(pieces, i + 1)),
                        points, pieces, i + 1)

\* lines 34-38: the loop, from iteration i on (acc is the array built so far)
RECURSIVE Stack(_, _, _, _)
Stack(acc, points, pieces, i) ==
    IF i >= Len(points) THEN acc
    ELSE Stack(acc \o <<At(points, i)>> \o At(pieces, i + 1), points, pieces, i + 1)

InsertZeros(trace, tt) ==
    LET zc_idx == ZcIdx(trace)
        tt_zero == TtZero(trace, tt, zc_idx)
        tt_split == Split(tt, zc_idx)
        trace_split == Split(trace, zc_idx)
        zeros == [k \in 1..Len(tt_zero) |-> PZero]
    IN  [trace_zi |-> Stack(trace_split[1], zeros, trace_split, 0),
         tt_zi |-> Stack(tt_split[1], tt_zero, tt_split, 0)]

\* the tt insert_zeros works on: np.arange(len(trace)) when tt is None
TtOrDefault(trace, tt) == IF tt.type = "NoneType" THEN Arange(Len(trace)).a ELSE tt.a

(***************************************************************************)
(* wiggle_input_check (plot.py 43-100)                                     *)
(***************************************************************************)
NoErr == [type |-> "none", line |-> 0]
Raise(t, l) == [type |-> t, line |-> l]

IsNone(x) == x.type = "NoneType"

\* isinstance(sf, (int, float))
IsNumber(x) == x.type \in {"int", "float", "bool"}

\* lines 60-61 and 74-75: the axis in use once a missing one is generated
TtDefaulted(data, tt) == IF IsNone(tt) THEN Arange(data.shape[1]) ELSE tt
XxDefaulted(data, xx) == IF IsNone(xx) THEN Arange(data.shape[2]) ELSE xx

\* lines 48-91 without the check of sf (lines 90-91)
CheckErrorNoSf(data, tt, xx, sf, verbose) ==
    IF verbose.type # "bool" THEN Raise("TypeError", 50)
    ELSE IF ~IsNumpy(data) THEN Raise("TypeError", 54)
    ELSE IF Len(data.shape) # 2 THEN Raise("ValueError", 57)
    ELSE IF ~IsNone(tt) /\ ~IsNumpy(tt) THEN Raise("TypeError", 67)
    ELSE IF ~IsNone(tt) /\ Len(tt.shape) # 1 THEN Raise("ValueError", 69)
    ELSE IF ~IsNone(tt) /\ tt.shape[1] # data.shape[1] THEN Raise("ValueError", 71)
    ELSE IF ~IsNone(xx) /\ ~IsNumpy(xx) THEN Raise("TypeError", 81)
    ELSE IF ~IsNone(xx) /\ Len(xx.shape) # 1 THEN Raise("ValueError", 83)
    ELSE NoErr

\* lines 48-91: the first check that raises, NoErr when none does
CheckError(data, tt, xx, sf, verbose) ==
    IF verbose.type # "bool" THEN Raise("TypeError", 50)
    ELSE IF ~IsNumpy(data) THEN Raise("TypeError", 54)
    ELSE IF Len(data.shape) # 2 THEN Raise("ValueError", 57)
    ELSE IF ~IsNone(tt) /\ ~IsNumpy(tt) THEN Raise("TypeError", 67)
    ELSE IF ~IsNone(tt) /\ Len(tt.shape) # 1 THEN Raise("ValueError", 69)
    ELSE IF ~IsNone(tt) /\ tt.shape[1] # data.shape[1] THEN Raise("ValueError", 71)
    ELSE IF ~IsNone(xx) /\ ~IsNumpy(xx) THEN Raise("TypeError", 81)
    ELSE IF ~IsNone(xx) /\ Len(xx.shape) # 1 THEN Raise("ValueError", 83)
    ELSE IF ~IsNone(xx) /\ TtDefaulted(data, tt).shape[1] # data.shape[1]
        THEN Raise("ValueError", 85)
    ELSE IF ~IsNumber(sf) THEN Raise("TypeError", 91)
    ELSE NoErr

\* lines 62-64, 76-78, 86-87: what verbose prints, up to the check that raises
Printed(data, tt, xx, sf, verbose) ==
    LET e == CheckError(data, tt, xx, sf, verbose)
        says == verbose.type = "bool" /\ verbose.a
        ttpart == IF says /\ IsNone(tt) /\ (e.line = 0 \/ e.line > 64)
                  THEN <<"tt is automatically generated.", "tt">> ELSE <<>>
        xxpart == IF says /\ IsNone(xx) /\ (e.line = 0 \/ e.line > 78)
                  THEN <<"xx is automatically generated.", "xx">>
                  ELSE IF says /\ ~IsNone(xx) /\ (e.line = 0 \/ e.line > 87)
                  THEN <<"xx">> ELSE <<>>
    IN  ttpart \o xxpart

\* np.min(np.diff(xx)) for len(xx) >= 2
RECURSIVE MinFrom(_, _, _)
MinFrom(s, k, m) ==
    IF k > Len(s) THEN m
    ELSE MinFrom(s, k + 1, IF Lt(s[k], m) THEN s[k] ELSE m)
Diff(s) == [k \in 1..(Len(s) - 1) |-> Sub(s[k + 1], s[k])]
MinDiff(s) == MinFrom(Diff(s), 2, Diff(s)[1])

\* data[:, j]
Column(data, j) == [i \in 1..data.shape[1] |-> data.a[i][j + 1]]

RECURSIVE SumFrom(_, _)
SumFrom(s, k) == IF k > Len(s) THEN PZero ELSE Add(s[k], SumFrom(s, k + 1))
\* np.mean: 0.0 / 0 = NaN on an empty column
Mean(s) == Div(SumFrom(s, 1), F(Len(s)))
\* np.std(col) ** 2: the mean of the squared deviations from the mean
StdSq(s) ==
    LET mu == Mean(s)
    IN  Mean([k \in 1..Len(s) |-> Mul(Sub(s[k], mu), Sub(s[k], mu))])

\* np.max, which propagates NaN, over a non-empty sequence
RECURSIVE MaxFrom(_, _, _)
MaxFrom(s, k, m) ==
    IF k > Len(s) THEN m
    ELSE MaxFrom(s, k + 1, IF IsNaN(m) \/ IsNaN(s[k]) THEN NaN
                           ELSE IF Lt(m, s[k]) THEN s[k] ELSE m)
\* np.max(np.std(data, axis=0)) ** 2, for a data with at least one column
MaxStdSq(data) ==
    LET v == [j \in 1..data.shape[2] |-> StdSq(Column(data, j - 1))]
    IN  MaxFrom(v, 2, v[1])

\* line 98 on one element d, with v = data_max_std ** 2.  A nonzero standard
\* deviation sqrt(v) stays in the result's rad; d / 0.0 is +-inf or NaN.
ScaleElement(d, v, ts, sf) ==
    Mul(Mul(IF IsZero(v) THEN Div(d, PZero) ELSE IF IsNaN(v) THEN NaN ELSE d, ts), sf)

\* lines 94-98: what raises there.  np.min of an empty np.diff(xx) and np.max
\* of an empty np.std raise ValueError; a non-number sf (which line 90 keeps
\* out) would make line 98 raise TypeError.
RescaleError(data, xx, sf) ==
    IF Len(xx.a) < 2 THEN Raise("ValueError", 94)
    ELSE IF data.shape[2] = 0 THEN Raise("ValueError", 97)
    ELSE IF ~IsNumber(sf) THEN Raise("TypeError", 98)
    ELSE NoErr

\* line 98 on the whole array, with v = data_max_std ** 2
ScaleAll(data, v, ts, sf) ==
    [data EXCEPT
       !.a = [i \in 1..data.shape[1] |->
                [j \in 1..data.shape[2] |-> ScaleElement(data.a[i][j], v, ts, sf)]],
       !.rad = IF IsZero(v) \/ IsNaN(v) THEN One ELSE v]

\* lines 94-98 on an input they accept (ts and data_max_std are computed once)
Scaled(data, xx, sf) ==
    CHOOSE s \in {ScaleAll(data, v, ts, sf.a) :
                     v \in {MaxStdSq(data)}, ts \in {MinDiff(xx.a)}} : TRUE

\* line 98 written back into the argument: data /= ..., data *= ...
RescaleInPlace(data, xx, sf) ==
    IF RescaleError(data, xx, sf).line # 0
    THEN [raised |-> RescaleError(data, xx, sf), data |-> data, ts |-> NaN,
          arg_data |-> data]
    ELSE [raised |-> NoErr, data |-> Scaled(data, xx, sf), ts |-> MinDiff(xx.a),
          arg_data |-> Scaled(data, xx, sf)]

\* line 98 without the division by data_max_std
RescaleNoStd(data, xx, sf) ==
    IF RescaleError(data, xx, sf).line # 0
    THEN [raised |-> RescaleError(data, xx, sf), data |-> data, ts |-> NaN,
          arg_data |-> data]
    ELSE [raised |-> NoErr,
          data |-> CHOOSE s \in {ScaleAll(data, One, ts, sf.a) : ts \in {MinDiff(xx.a)}} : TRUE,
          ts |-> MinDiff(xx.a), arg_data |-> data]

\* lines 93-100: ts, data_max_std and the rescaled data, bound to the local
\* name data; arg_data is the array object the caller passed, as the call
\* leaves it.
Rescale(data, xx, sf) ==
    IF RescaleError(data, xx, sf).line # 0
    THEN [raised |-> RescaleError(data, xx, sf), data |-> data, ts |-> NaN,
          arg_data |-> data]
    ELSE [raised |-> NoErr, data |-> Scaled(data, xx, sf), ts |-> MinDiff(xx.a),
          arg_data |-> data]

(***************************************************************************)
(* wiggle (plot.py 103-155) and traces (158-204): one call, in steps.      *)
(***************************************************************************)
NoFrame == [data |-> PyNone, tt |-> PyNone, xx |-> PyNone, ts |-> NaN]

\* pyqtgraph's global options as the library ships them
NoConfig == [background |-> "default", foreground |-> "default", antialias |-> FALSE]

\* the plotting backends before the call: pyqtgraph's global options unset, no
\* plot window, no matplotlib axes, nothing drawn
NoBackend ==
    [config |-> NoConfig, windows |-> 0, axes |-> 0, items |-> <<>>, grid |-> FALSE,
     inverted |-> FALSE, xlim |-> <<>>, ylim |-> <<>>, stdout |-> <<>>]

\* the data matrices offered to a call: every shape up to MaxRows x MaxCols
\* filled in three ways
Fill(p, i, j) ==
    CASE p = "alternating" -> F(j * (IF i % 2 = 1 THEN 1 ELSE -1))
      [] p = "constant" -> F(j)
      [] p = "mixed" -> F(((i + j) % 3) - 1)
Matrices ==
    {Array2(r, c, [i \in 1..r |-> [j \in 1..c |-> Fill(p, i, j)]]) :
        r \in 0..MaxRows, c \in 0..MaxCols, p \in {"alternating", "constant", "mixed"}}
OneD == Array1(<<F(1), F(-1)>>)
DataKinds == {"2D", "1D", "list"}
DataOfKind(k) == IF k = "2D" THEN Matrices ELSE IF k = "1D" THEN {OneD} ELSE {PyList}

RowsOf(data) == IF IsNumpy(data) /\ Len(data.shape) = 2 THEN data.shape[1] ELSE 2
ColsOf(data) == IF IsNumpy(data) /\ Len(data.shape) = 2 THEN data.shape[2] ELSE 2

\* tt: omitted, of the right length, one too long, 2D, not an array
TtKinds == {"none", "fits", "long", "2D", "list"}
TtChoice(data, k) ==
    CASE k = "none" -> PyNone
      [] k = "fits" -> Array1([i \in 1..RowsOf(data) |-> F(2 * (i - 1))])
      [] k = "long" -> Array1([i \in 1..(RowsOf(data) + 1) |-> F(2 * (i - 1))])
      [] k = "2D" -> Array2(1, RowsOf(data), <<[i \in 1..RowsOf(data) |-> F(i)]>>)
      [] k = "list" -> PyList

\* xx: omitted, of the right length (increasing, decreasing), one too short,
\* one too long, 2D, not an array
XxKinds == {"none", "fits", "decreasing", "short", "long", "2D", "list"}
XxChoice(data, k) ==
    CASE k = "none" -> PyNone
      [] k = "fits" -> Array1([j \in 1..ColsOf(data) |-> F(3 * (j - 1))])
      [] k = "decreasing" -> Array1([j \in 1..ColsOf(data) |-> F(ColsOf(data) - j)])
      [] k = "short" -> Array1([j \in 1..(ColsOf(data) - 1) |-> F(j)])
      [] k = "long" -> Array1([j \in 1..(ColsOf(data) + 1) |-> F(j)])
      [] k = "2D" -> Array2(1, ColsOf(data), <<[j \in 1..ColsOf(data) |-> F(j)]>>)
      [] k = "list" -> PyList

SfChoices == {PyNum("int", F(2)), PyNum("float", <<-1, 2>>), PyStr}

VerboseKinds == {"False", "True", "1"}
VerboseChoice(k) ==
    CASE k = "False" -> PyBool(FALSE)
      [] k = "True" -> PyBool(TRUE)
      [] k = "1" -> PyNum("int", F(1))

\* the arguments of a call
CallArgs(shades) ==
    \E dk \in DataKinds, tk \in TtKinds, xk \in XxKinds, f \in SfChoices,
       vk \in VerboseKinds, h \in shades :
       \E d \in DataOfKind(dk) :
          /\ args' = [data |-> d, tt |-> TtChoice(d, tk), xx |-> XxChoice(d, xk),
                      sf |-> f, verbose |-> VerboseChoice(vk), shade |-> h]
          /\ heap_data' = d

PlotIdle ==
    /\ pc = "idle"
    /\ fn = "none"
    /\ args = <<>>
    /\ heap_data = PyNone
    /\ frame = NoFrame
    /\ err = NoErr
    /\ ntr = 0
    /\ backend = NoBackend

\* wiggle(data, tt, xx, color, sf, verbose) is called
WiggleCall ==
    /\ pc = "idle"
    /\ CallArgs({FALSE})
    /\ fn' = "wiggle"
    /\ pc' = "check"
    /\ UNCHANGED <<frame, err, ntr, backend>>
    /\ UNCHANGED <<nan_signbit, izvars>>

\* traces(data, tt, xx, color, sf, verbose, shade) is called
TracesCall ==
    /\ pc = "idle"
    /\ CallArgs(BOOLEAN)
    /\ fn' = "traces"
    /\ pc' = "check"
    /\ UNCHANGED <<frame, err, ntr, backend>>
    /\ UNCHANGED <<nan_signbit, izvars>>

\* lines 134/164, first half: lines 48-91 of wiggle_input_check
InputCheck ==
    /\ pc = "check"
    /\ LET e == CheckError(args.data, args.tt, args.xx, args.sf, args.verbose)
       IN  /\ err' = e
           /\ backend' = [backend EXCEPT !.stdout =
                  @ \o Printed(args.data, args.tt, args.xx, args.sf, args.verbose)]
           /\ IF e.line # 0
              THEN pc' = "raised" /\ frame' = frame
              ELSE /\ pc' = "rescale"
                   /\ frame' = [data |-> heap_data,
                                tt |-> TtDefaulted(args.data, args.tt),
                                xx |-> XxDefaulted(args.data, args.xx),
                                ts |-> NaN]
    /\ UNCHANGED <<fn, args, heap_data, ntr>>
    /\ UNCHANGED <<nan_signbit, izvars>>

\* lines 134/164, second half: lines 93-100 of wiggle_input_check
InputRescale ==
    /\ pc = "rescale"
    /\ LET r == Rescale(frame.data, frame.xx, args.sf)
       IN  /\ err' = r.raised
           /\ heap_data' = r.arg_data
           /\ IF r.raised.line # 0
              THEN pc' = "raised" /\ frame' = frame
              ELSE pc' = "setup" /\ frame' = [frame EXCEPT !.data = r.data, !.ts = r.ts]
    /\ UNCHANGED <<fn, args, ntr, backend>>
    /\ UNCHANGED <<nan_signbit, izvars>>

NoResult == [trace_zi |-> <<>>, tt_zi |-> <<>>]

\* lines 182-190: float64 arrays built from lists in which None (NaN in the
\* array) stands where the sample fails the test
Ge0(x) == Le(PZero, x)
Le0(x) == Le(x, PZero)
MaskedGe0(s) == [k \in 1..Len(s) |-> IF Ge0(s[k]) THEN s[k] ELSE NaN]
MaskedLe0(s) == [k \in 1..Len(s) |-> IF Le0(s[k]) THEN s[k] ELSE NaN]

Ntr == frame.data.shape[2]

\* lines 166-172: global options, then the plot window
TracesSetup ==
    /\ pc = "setup"
    /\ fn = "traces"
    /\ backend' = [backend EXCEPT
                     !.config = [background |-> "w", foreground |-> "k", antialias |-> TRUE],
                     !.windows = @ + 1]
    /\ ntr' = 0
    /\ pc' = "loop"
    /\ UNCHANGED <<fn, args, heap_data, frame, err>>
    /\ UNCHANGED <<nan_signbit, izvars>>

\* lines 174-198: one iteration of the loop.  Items carry the amplitudes
\* (in units of 1 / sqrt(rad)) and the offset they are shifted by.
TracesTrace ==
    /\ pc = "loop"
    /\ fn = "traces"
    /\ ntr < Ntr
    /\ IF ntr >= Len(frame.xx.a)
       THEN /\ err' = Raise("IndexError", 176)
            /\ pc' = "raised"
            /\ UNCHANGED <<ntr, backend>>
       ELSE LET trace == Column(frame.data, ntr)
                offset == At(frame.xx.a, ntr)
                zi == InsertZeros(trace, frame.tt.a)
                Item(kind, amp, y) ==
                    [kind |-> kind, ntr |-> ntr, amp |-> amp, rad |-> frame.data.rad,
                     offset |-> offset, y |-> y]
                Base(x) == IF Ge0(x) THEN PZero ELSE NaN
            IN  /\ backend' = [backend EXCEPT !.items =
                       IF args.shade
                       THEN @ \o <<Item("top", MaskedGe0(zi.trace_zi), zi.tt_zi),
                                   Item("baseline",
                                        [k \in 1..Len(zi.trace_zi) |-> Base(zi.trace_zi[k])],
                                        zi.tt_zi),
                                   Item("bottom", MaskedLe0(zi.trace_zi), zi.tt_zi),
                                   Item("fill", MaskedGe0(zi.trace_zi), zi.tt_zi)>>
                       ELSE @ \o <<Item("line", trace, frame.tt.a)>>]
                /\ ntr' = ntr + 1
                /\ UNCHANGED <<pc, err>>
    /\ UNCHANGED <<fn, args, heap_data, frame>>
    /\ UNCHANGED <<nan_signbit, izvars>>

\* lines 200-204; np.min of an empty tt raises ValueError
TracesFinish ==
    /\ pc = "loop"
    /\ fn = "traces"
    /\ ntr = Ntr
    /\ IF Len(frame.tt.a) = 0
       THEN /\ backend' = [backend EXCEPT !.grid = TRUE, !.inverted = TRUE]
            /\ err' = Raise("ValueError", 202)
            /\ pc' = "raised"
       ELSE /\ backend' = [backend EXCEPT
                  !.grid = TRUE, !.inverted = TRUE,
                  !.ylim = <<MinFrom(frame.tt.a, 2, frame.tt.a[1]),
                             MaxFrom(frame.tt.a, 2, frame.tt.a[1])>>]
            /\ err' = err
            /\ pc' = "done"
    /\ UNCHANGED <<fn, args, heap_data, frame, ntr>>
    /\ UNCHANGED <<nan_signbit, izvars>>

\* lines 137-139: plt.gca() makes the current axes
WiggleSetup ==
    /\ pc = "setup"
    /\ fn = "wiggle"
    /\ backend' = [backend EXCEPT !.axes = 1]
    /\ ntr' = 0
    /\ pc' = "loop"
    /\ UNCHANGED <<fn, args, heap_data, frame, err>>
    /\ UNCHANGED <<nan_signbit, izvars>>

\* lines 140-151: one iteration of the loop
WiggleTrace ==
    /\ pc = "loop"
    /\ fn = "wiggle"
    /\ ntr < Ntr
    /\ IF ntr >= Len(frame.xx.a)
       THEN /\ err' = Raise("IndexError", 142)
            /\ pc' = "raised"
            /\ UNCHANGED <<ntr, backend>>
       ELSE LET trace == Column(frame.data, ntr)
                offset == At(frame.xx.a, ntr)
                zi == InsertZeros(trace, frame.tt.a)
                Item(kind, amp) ==
                    [kind |-> kind, ntr |-> ntr, amp |-> amp, rad |-> frame.data.rad,
                     offset |-> offset, y |-> zi.tt_zi]
            IN  /\ backend' = [backend EXCEPT
                       !.items = @ \o <<Item("fill", MaskedGe0(zi.trace_zi)),
                                        Item("line", zi.trace_zi)>>,
                       !.stdout = IF args.verbose.a THEN @ \o <<"offset">> ELSE @]
                /\ ntr' = ntr + 1
                /\ UNCHANGED <<pc, err>>
    /\ UNCHANGED <<fn, args, heap_data, frame>>
    /\ UNCHANGED <<nan_signbit, izvars>>

\* lines 153-155; tt[0] of an empty tt raises IndexError
WiggleFinish ==
    /\ pc = "loop"
    /\ fn = "wiggle"
    /\ ntr = Ntr
    /\ LET xlim == <<Sub(frame.xx.a[1], frame.ts),
                     Add(frame.xx.a[Len(frame.xx.a)], frame.ts)>>
       IN  IF Len(frame.tt.a) = 0
           THEN /\ backend' = [backend EXCEPT !.xlim = xlim]
                /\ err' = Raise("IndexError", 154)
                /\ pc' = "raised"
           ELSE /\ backend' = [backend EXCEPT
                      !.xlim = xlim,
                      !.ylim = <<frame.tt.a[1], frame.tt.a[Len(frame.tt.a)]>>,
                      !.inverted = TRUE]
                /\ err' = err
                /\ pc' = "done"
    /\ UNCHANGED <<fn, args, heap_data, frame, ntr>>
    /\ UNCHANGED <<nan_signbit, izvars>>

PlotInit ==
    /\ nan_signbit \in BOOLEAN
    /\ ipc = "idle"
    /\ trace_in = <<>>
    /\ tt_in = PyNone
    /\ iz = NoResult
    /\ PlotIdle

PlotNext ==
    \/ WiggleCall
    \/ TracesCall
    \/ InputCheck
    \/ InputRescale
    \/ WiggleSetup
    \/ WiggleTrace
    \/ WiggleFinish
    \/ TracesSetup
    \/ TracesTrace
    \/ TracesFinish

SpecPlot == PlotInit /\ [][PlotNext]_vars

(***************************************************************************)
(* Direct calls of insert_zeros: the arguments are drawn in IzInit, the    *)
(* call is one step.                                                       *)
(***************************************************************************)
TraceVals == {F(-1), NZero, PZero, F(1), F(3)}

SeqsUpTo(S, n) == UNION {[1..k -> S] : k \in 0..n}

\* sample axes of length n: omitted, strictly increasing, with repeated
\* coordinates, strictly decreasing
Axes(n) ==
    {PyNone,
     Array1([i \in 1..n |-> F((i - 1) * (i - 1))]),
     Array1([i \in 1..n |-> F((i - 1) \div 2)]),
     Array1([i \in 1..n |-> F(n - i)])}

IzInit ==
    /\ nan_signbit \in BOOLEAN
    /\ ipc = "args"
    /\ trace_in \in SeqsUpTo(TraceVals, MaxLen)
    /\ tt_in \in Axes(Len(trace_in))
    /\ iz = NoResult
    /\ PlotIdle

InsertZerosCall ==
    /\ ipc = "args"
    /\ iz' = InsertZeros(trace_in, TtOrDefault(trace_in, tt_in))
    /\ ipc' = "done"
    /\ UNCHANGED <<nan_signbit, trace_in, tt_in>>
    /\ UNCHANGED plotvars

IzNext == InsertZerosCall

SpecInsert == IzInit /\ [][IzNext]_vars

(***************************************************************************)
(* Claims about insert_zeros, checked under SpecInsert.                    *)
(***************************************************************************)
IzDone == ipc = "done"
TtUsed == TtOrDefault(trace_in, tt_in)
NPairs == IF Len(trace_in) = 0 THEN 0 ELSE Len(trace_in) - 1

\* -1, 0 or 1: the sign of a finite sample as a number
Sign(x) == IF IsZero(x) THEN 0 ELSE IF x[1] < 0 THEN -1 ELSE 1

\* the pairs (i, i+1) whose signs differ as numbers
SignChanges == {i \in 0..(NPairs - 1) : Sign(At(trace_in, i)) # Sign(At(trace_in, i + 1))}

\* the pairs (i, i+1) of which exactly one sample has its sign bit set
\* (a negative sample or -0.0)
Crossings == {i \in 0..(NPairs - 1) : Signbit(At(trace_in, i)) # Signbit(At(trace_in, i + 1))}

\* where original sample j and the point inserted after sample i are expected
\* in the output (positions counted from 1)
OrigPos(j) == j + 1 + Cardinality({c \in Crossings : c < j})
InsPos(i) == OrigPos(i) + 1
InsertedPositions == {InsPos(i) : i \in Crossings}

\* s without the elements at the positions in P
RECURSIVE Remove(_, _, _)
Remove(s, P, k) ==
    IF k > Len(s) THEN <<>>
    ELSE (IF k \in P THEN <<>> ELSE <<s[k]>>) \o Remove(s, P, k + 1)

\* C1 as stated: the two outputs have equal length, len(trace) plus the number
\* of indices i with sign(trace[i]) # sign(trace[i+1]).
C1_LengthBySign ==
    IzDone => /\ Len(iz.trace_zi) = Len(iz.tt_zi)
              /\ Len(iz.trace_zi) = Len(trace_in) + Cardinality(SignChanges)

\* C1 amended: the two outputs have equal length, len(trace) plus the number of
\* indices i at which exactly one of trace[i], trace[i+1] has its sign bit set.
C1_LengthBySignbit ==
    IzDone => /\ Len(iz.trace_zi) = Len(iz.tt_zi)
              /\ Len(iz.trace_zi) = Len(trace_in) + Cardinality(Crossings)

C1_Witness ==
    /\ IzDone
    /\ Cardinality(Crossings) = 2
    /\ Cardinality(SignChanges) # Cardinality(Crossings)
    /\ tt_in.type = "ndarray"

\* C2: deleting the inserted points from the output gives back the input
\* (amplitudes and coordinates); without a crossing the input is returned as is.
C2_OriginalsPreserved ==
    IzDone => /\ Remove(iz.trace_zi, InsertedPositions, 1) = trace_in
              /\ Remove(iz.tt_zi, InsertedPositions, 1) = TtUsed
              /\ (Crossings = {} => iz.trace_zi = trace_in /\ iz.tt_zi = TtUsed)

C2_Witness ==
    /\ IzDone
    /\ Len(trace_in) = 3
    /\ Crossings = {0, 1}
    /\ Len(iz.trace_zi) = 5

\* C3: one point is added per crossing index i, with amplitude 0, right after
\* original sample i and right before original sample i+1.
C3_ZeroBetweenNeighbours ==
    IzDone =>
        /\ Len(iz.trace_zi) - Len(trace_in) = Cardinality(Crossings)
        /\ \A i \in Crossings :
              /\ InsPos(i) + 1 <= Len(iz.trace_zi)
              /\ iz.trace_zi[InsPos(i)] = PZero
              /\ iz.trace_zi[InsPos(i) - 1] = At(trace_in, i)
              /\ iz.tt_zi[InsPos(i) - 1] = At(TtUsed, i)
              /\ iz.trace_zi[InsPos(i) + 1] = At(trace_in, i + 1)
              /\ iz.tt_zi[InsPos(i) + 1] = At(TtUsed, i + 1)
        /\ \A p \in 1..Len(iz.trace_zi) :
              p \notin InsertedPositions =>
                  \E j \in 0..(Len(trace_in) - 1) :
                      p = OrigPos(j) /\ iz.trace_zi[p] = At(trace_in, j)

C3_Witness ==
    /\ IzDone
    /\ Crossings = {1}
    /\ Len(trace_in) = 3
    /\ tt_in.type = "NoneType"

StrictlyIncreasing(tt) == \A k \in 1..(Len(tt) - 1) : Lt(tt[k], tt[k + 1])
NonDecreasing(tt) == \A k \in 1..(Len(tt) - 1) : Le(tt[k], tt[k + 1])

\* x0 is where the line through (x1, y1) and (x2, y2) is zero
IsLineZero(x0, x1, y1, x2, y2) ==
    FEq(Add(Mul(y1, Sub(x2, x1)), Mul(Sub(y2, y1), Sub(x0, x1))), PZero)

\* C4: on a strictly increasing axis the coordinate inserted at crossing i is the
\* zero of the line through the two samples, lies in [tt[i], tt[i+1]], and the
\* output axis is non-decreasing; [1, -1] on [0, 1] gives [1, 0, -1] on [0, 1/2, 1].
C4_Interpolation ==
    (IzDone /\ StrictlyIncreasing(TtUsed)) =>
        /\ \A i \in Crossings :
              LET x0 == iz.tt_zi[InsPos(i)]
              IN  /\ IsLineZero(x0, At(TtUsed, i), At(trace_in, i),
                                At(TtUsed, i + 1), At(trace_in, i + 1))
                  /\ Le(At(TtUsed, i), x0)
                  /\ Le(x0, At(TtUsed, i + 1))
        /\ NonDecreasing(iz.tt_zi)
        /\ (trace_in = <<F(1), F(-1)>> =>
               /\ iz.trace_zi = <<F(1), PZero, F(-1)>>
               /\ iz.tt_zi = <<PZero, <<1, 2>>, F(1)>>)

\* C4 away from the pair (-0.0, +0.0): every crossing with a nonzero sample.
C4_OffZeroPairs ==
    (\A i \in Crossings : ~(IsZero(At(trace_in, i)) /\ IsZero(At(trace_in, i + 1))))
        => C4_Interpolation

\* the crossing indices insert_zeros found
Detected(i) == \E k \in 1..Len(ZcIdx(trace_in)) : ZcIdx(trace_in)[k] = i
StrictlyNegative(x) == Lt(x, PZero)
\* the divisor a of line 25 at crossing i
SlopeAt(i) ==
    Div(Sub(At(trace_in, i + 1), At(trace_in, i)), Sub(At(TtUsed, i + 1), At(TtUsed, i)))
\* the coordinate of the zero sample of a crossing that has one
ZeroEndCoord(i) == IF IsZero(At(trace_in, i)) THEN At(TtUsed, i) ELSE At(TtUsed, i + 1)

CheckReturned == pc \in {"setup", "loop", "done"} \/ (pc = "raised" /\ err.line > 100)
CheckLeft == pc \notin {"idle", "check", "rescale"}
\* wiggle_input_check has just returned: nothing else has run since
JustReturned == pc = "setup"

Is2D(x) == IsNumpy(x) /\ Len(x.shape) = 2
Is1D(x) == IsNumpy(x) /\ Len(x.shape) = 1

\* an argument the claim calls invalid: data not an array or not 2D, tt not 1D
\* or of the wrong length, sf not a number
InvalidArgument ==
    \/ ~Is2D(args.data)
    \/ ~IsNone(args.tt) /\ (~Is1D(args.tt) \/ args.tt.shape[1] # args.data.shape[1])
    \/ ~IsNumber(args.sf)

BackendUntouched ==
    /\ backend.config = NoConfig
    /\ backend.windows = 0
    /\ backend.axes = 0
    /\ backend.items = <<>>
    /\ backend.xlim = <<>> /\ backend.ylim = <<>>
    /\ ~backend.grid /\ ~backend.inverted

\* C5: with an invalid argument the call ends in wiggle_input_check's
\* validation (lines 48-91): nothing is rescaled, no global option is set, no
\* window or axes made, nothing drawn.  1D data gives ValueError, a str sf
\* gives TypeError.
C5_ErrorsBeforeEffects ==
    (pc \notin {"idle", "check"} /\ InvalidArgument) =>
        /\ pc = "raised"
        /\ err.line \in 48..91
        /\ frame.data.type = "NoneType"
        /\ IsNaN(frame.ts)
        /\ heap_data = args.data
        /\ BackendUntouched
        /\ (Is1D(args.data) /\ args.verbose.type = "bool") => err = Raise("ValueError", 57)
        /\ (~IsNumber(args.sf) /\ Is2D(args.data) /\ args.verbose.type = "bool"
              /\ IsNone(args.tt) /\ IsNone(args.xx)) => err = Raise("TypeError", 91)

C5_Witness ==
    /\ pc = "raised"
    /\ fn = "traces"
    /\ args.sf.type = "str"
    /\ Is2D(args.data) /\ args.data.shape = <<2, 2>>
    /\ err = Raise("TypeError", 91)

\* C6: when wiggle_input_check returns, xx has as many elements as data has
\* columns and tt as many as data has rows; a supplied xx of another length is
\* rejected by wiggle_input_check with a ValueError (stated for data of at
\* least 2 rows).
C6_AxisLengths ==
    /\ (CheckReturned /\ args.data.shape[1] >= 2) =>
          /\ frame.xx.shape[1] = args.data.shape[2]
          /\ frame.tt.shape[1] = args.data.shape[1]
    /\ (CheckLeft /\ Is2D(args.data) /\ Is1D(args.xx)
          /\ args.data.shape[1] >= 2
          /\ args.xx.shape[1] # args.data.shape[2]
          /\ CheckErrorNoSf(args.data, args.tt, PyNone, args.sf, args.verbose).line = 0
          /\ IsNumber(args.sf))
       => (pc = "raised" /\ err.type = "ValueError" /\ err.line <= 100)

\* C7: a data matrix that wiggle_input_check accepts has at least 2 rows.
C7_AtLeastTwoRows ==
    CheckReturned => args.data.shape[1] >= 2

IsMinOf(m, s) == (\E k \in 1..Len(s) : s[k] = m) /\ (\A k \in 1..Len(s) : Le(m, s[k]))

\* C8: on success tt and xx are the supplied ones (or 0..rows-1, 0..cols-1),
\* ts is the least difference of adjacent xx, and the caller's data array holds
\* what it held.
C8_OnlyAmplitudesChange ==
    CheckReturned =>
        /\ frame.tt = (IF IsNone(args.tt)
                       THEN Array1([i \in 1..args.data.shape[1] |-> F(i - 1)])
                       ELSE args.tt)
        /\ frame.xx = (IF IsNone(args.xx)
                       THEN Array1([j \in 1..args.data.shape[2] |-> F(j - 1)])
                       ELSE args.xx)
        /\ IsMinOf(frame.ts, [k \in 1..(Len(frame.xx.a) - 1) |->
                                 Sub(frame.xx.a[k + 1], frame.xx.a[k])])
        /\ heap_data = args.data

C8_Witness ==
    /\ CheckReturned
    /\ Is1D(args.tt) /\ Is1D(args.xx)
    /\ args.data.shape = <<2, 2>>
    /\ frame.data.a # args.data.a
    /\ heap_data = args.data

\* two array elements x / sqrt(r) and y / sqrt(q) are the same number
SameNumber(x, r, y, q) ==
    IF IsNaN(x) \/ IsNaN(y) THEN FALSE
    ELSE IF IsZero(x) \/ IsZero(y) THEN IsZero(x) /\ IsZero(y)
    ELSE IF IsInf(x) \/ IsInf(y) THEN x = y
    ELSE /\ Signbit(x) = Signbit(y)
         /\ FEq(Mul(Mul(x, x), q), Mul(Mul(y, y), r))

SameArray(A, B) ==
    /\ A.shape = B.shape
    /\ \A i \in 1..A.shape[1] : \A j \in 1..A.shape[2] :
          SameNumber(A.a[i][j], A.rad, B.a[i][j], B.rad)

\* c * A
Times(c, A) ==
    [A EXCEPT !.a = [i \in 1..A.shape[1] |-> [j \in 1..A.shape[2] |-> Mul(c, A.a[i][j])]]]

ScaleConstants == {F(2), F(3), <<1, 2>>}

\* the largest column standard deviation is a nonzero number
HasSpread(data) ==
    /\ data.shape[1] > 0
    /\ data.shape[2] > 0
    /\ ~IsZero(MaxStdSq(data))

\* C9 as stated: for c > 0 the output for (c * data, sf / c) is the output for
\* (data, sf).
C9_ScaleInvariance ==
    (JustReturned /\ HasSpread(args.data)) =>
        \A c \in ScaleConstants :
            SameArray(Rescale(Times(c, args.data), frame.xx,
                              PyNum("float", Div(args.sf.a, c))).data,
                      frame.data)

\* C9 amended: for c > 0 the output for (c * data, sf) is the output for
\* (data, sf), and the output for (c * data, sf / c) is that output divided by
\* c, when the largest column standard deviation of data is not zero.
C9_AmplitudeInvariance ==
    (JustReturned /\ HasSpread(args.data)) =>
        \A c \in ScaleConstants :
            /\ SameArray(Rescale(Times(c, args.data), frame.xx, args.sf).data, frame.data)
            /\ SameArray(Times(c, Rescale(Times(c, args.data), frame.xx,
                                          PyNum("float", Div(args.sf.a, c))).data),
                         frame.data)

C9_Witness ==
    /\ JustReturned
    /\ HasSpread(args.data)
    /\ args.data.shape = <<2, 3>>
    /\ \E i \in 1..2 : \E j \in 1..3 : IsFinite(frame.data.a[i][j]) /\ ~IsZero(frame.data.a[i][j])
    /\ frame.data.rad # One

====
